---- MODULE Spec2Model ----
(***************************************************************************)
(* Image-Processing-Pipeline (src/app.py): three Chalice handlers around   *)
(* two S3 buckets.                                                         *)
(*   upload_image         POST /upload        -> original bucket           *)
(*   resize_image         S3 event            -> processed bucket          *)
(*   get_processed_image  GET /images/{key}   <- processed bucket          *)
(* An invocation runs from its event to its answer in one step: what it    *)
(* reads (an object of the original bucket) is written once, before the    *)
(* notification that starts it.                                            *)
(*                                                                         *)
(* Strings that the code takes apart (the Content-Type header, the object  *)
(* key) are sequences of tokens: "image/jpeg" is <<"image", "/", "jpeg">>, *)
(* a missing header and the empty string are <<>>.                         *)
(***************************************************************************)
EXTENDS Integers, Sequences, FiniteSets, TLC

VARIABLES rawStore, procStore, events, redelivered,
          nextUuid, assigned, produced, last

vars == <<rawStore, procStore, events, redelivered,
          nextUuid, assigned, produced, last>>

(* ------------------------------ bounds --------------------------------- *)

\* Number of uploads that get as far as generating a key.
MaxUploads == 2

\* Number of notifications S3 delivers once more (delivery is at least
\* once, so the notification of a write may arrive again).
MaxRedeliveries == 1

(* ------------------------- program constants --------------------------- *)

TargetWidth == 800
TargetHeight == 600
Quality == 85

\* content_types of the /upload route
route_content_types == { <<"image", "/", "jpeg">>, <<"image", "/", "png">> }

\* the list upload_image checks the header against
allowed_content_types ==
    { <<"image", "/", "jpeg">>, <<"image", "/", "png">>, <<"image", "/", "webp">> }

\* Chalice substitutes this when the request has no Content-Type header
default_content_type == <<"application", "/", "json">>

(* ------------------------------ inputs --------------------------------- *)

NoHeader == <<>>

\* Request bodies. format/mode/width/height are what Image.open finds in the
\* bytes (format "" when the bytes are no image); px names the pixel content
\* as the list of operations that produced it.
JpegPhoto == [format |-> "JPEG", mode |-> "RGB", width |-> 1920, height |-> 1080,
              quality |-> 0, px |-> <<"photo">>]
PngAlpha  == [format |-> "PNG", mode |-> "RGBA", width |-> 640, height |-> 480,
              quality |-> 0, px |-> <<"logo">>]
WebpAlpha == [format |-> "WEBP", mode |-> "RGBA", width |-> 1024, height |-> 768,
              quality |-> 0, px |-> <<"sticker">>]
NotAnImage == [format |-> "", mode |-> "", width |-> 0, height |-> 0,
               quality |-> 0, px |-> <<"text">>]

\* The requests clients send: each content type with an image of that type,
\* and bodies that are not what the header declares (the code never looks).
Requests ==
    { <<<<"image", "/", "jpeg">>, JpegPhoto>>,
      <<<<"image", "/", "png">>, PngAlpha>>,
      <<<<"image", "/", "webp">>, WebpAlpha>>,
      <<<<"image", "/", "png">>, WebpAlpha>>,
      <<<<"image", "/", "jpeg">>, NotAnImage>>,
      <<<<"text", "/", "plain">>, NotAnImage>>,
      <<<<"IMAGE", "/", "PNG">>, PngAlpha>>,
      <<<<"image", "/", "jpeg", ";", "charset=binary">>, JpegPhoto>>,
      <<NoHeader, JpegPhoto>> }

EmptyBytes == [format |-> "", mode |-> "", width |-> 0, height |-> 0,
               quality |-> 0, px |-> <<>>]

Uuids == <<"u1", "u2", "u3", "u4">>

Extensions == {"jpeg", "png", "webp"}

NoKey == <<>>

\* every key a client may ask for
AllKeys == { <<Uuids[i], ".", e>> : i \in 1..(MaxUploads + 1), e \in Extensions }

(* ------------------------- string operations --------------------------- *)

\* str.lower on one token
lower(tok) == IF tok = "IMAGE" THEN "image" ELSE IF tok = "PNG" THEN "png" ELSE tok

\* str.split / re.split: the pieces of s between the separators
RECURSIVE split(_, _)
split(s, seps) ==
    IF s = <<>> THEN << <<>> >>
    ELSE LET rest == split(Tail(s), seps)
         IN  IF Head(s) \in seps
             THEN << <<>> >> \o rest
             ELSE << <<Head(s)>> \o Head(rest) >> \o Tail(rest)

\* '*/*' in s
has_wildcard(s) ==
    \E i \in 1..(Len(s) - 2) : s[i] = "*" /\ s[i + 1] = "/" /\ s[i + 2] = "*"

(* ---------------------------- image codec ------------------------------- *)

Raised == [raised |-> TRUE, value |-> EmptyBytes]

Returned(v) == [raised |-> FALSE, value |-> v]

\* formats Image.open identifies
DecodableFormats == {"JPEG", "PNG", "WEBP"}

\* modes the JPEG encoder writes; any other mode raises OSError
JpegModes == {"1", "L", "RGB", "CMYK", "YCbCr"}

\* Image.open(BytesIO(image_data))
Image_open(image_data) ==
    IF image_data.format \in DecodableFormats THEN Returned(image_data) ELSE Raised

\* img.convert("RGB"): a new image of that mode (its format is unset)
Image_convert(img, mode) ==
    [img EXCEPT !.mode = mode, !.format = "", !.px = Append(@, "convert")]

\* img.resize((w, h)): a new image of exactly that size, whatever the source
\* size was
Image_resize(img, w, h) ==
    [img EXCEPT !.width = w, !.height = h, !.format = "", !.px = Append(@, "resize")]

\* img.save(buffer, format="JPEG", optimize=True, quality=q); buffer.getvalue()
Image_save_jpeg(img, q) ==
    IF img.mode \in JpegModes
    THEN Returned([img EXCEPT !.format = "JPEG", !.quality = q,
                              !.px = Append(@, "encode")])
    ELSE Raised

\* process_image: decode, WebP -> RGB, resize, encode; an exception of any
\* step is logged and raised again
process_image(image_data) ==
    LET opened == Image_open(image_data)
    IN  IF opened.raised THEN Raised
        ELSE LET img  == opened.value
                 rgb  == IF img.format = "WEBP" THEN Image_convert(img, "RGB") ELSE img
                 sized == Image_resize(rgb, TargetWidth, TargetHeight)
             IN  Image_save_jpeg(sized, Quality)

(* ---------------------------- framework -------------------------------- *)

\* Chalice matches the request's Content-Type against the route's
\* content_types before it calls the view: both sides lower-cased, the header
\* split at , and ; and a wildcard on either side matching everything.
matches_content_type(header, valid) ==
    LET given  == IF header = NoHeader THEN default_content_type ELSE header
        lowerd == [i \in DOMAIN given |-> lower(given[i])]
        parts  == split(lowerd, {",", ";"})
    IN  \/ has_wildcard(lowerd)
        \/ <<"*", "/", "*">> \in valid
        \/ \E i \in DOMAIN parts : parts[i] \in valid

\* chalice.Response(body, headers=None, status_code=200): the parameters
\* its constructor takes; any other keyword raises TypeError
ResponseParams == {"body", "headers", "status_code"}

Response_raises(kwargs) == ~(kwargs \subseteq ResponseParams)

(* ---------------------------- responses -------------------------------- *)

TextBody(t) == [kind |-> "text", text |-> t, image_key |-> NoKey, data |-> EmptyBytes]

JsonBody(msg, key) == [kind |-> "json", text |-> msg, image_key |-> key, data |-> EmptyBytes]

BytesBody(d) == [kind |-> "bytes", text |-> "", image_key |-> NoKey, data |-> d]

\* what the last finished invocation answered, and the request it answered
\* (the body of a request that is turned away is not kept)
Answer(handler, header, image_data, key, status, body, content_type) ==
    [handler |-> handler, content_type |-> header, image_data |-> image_data,
     key |-> key, status |-> status, body |-> body, headers |-> content_type]

(* ------------------------------ state ---------------------------------- *)

Init ==
    /\ rawStore = << >>
    /\ procStore = << >>
    /\ events = [k \in AllKeys |-> 0]
    /\ redelivered = 0
    /\ nextUuid = 1
    /\ assigned = [k \in AllKeys |-> 0]
    /\ produced = [k \in AllKeys |-> <<>>]
    /\ last = Answer("none", NoHeader, EmptyBytes, NoKey, "none", TextBody(""), NoHeader)

\* a key generator that hands out the same identifier again
uuid4_reused == Uuids[1]

\* uuid.uuid4(): a value no earlier call returned
uuid4 == Uuids[nextUuid]

(* ------------------------------ upload --------------------------------- *)

\* POST /upload: the route's content-type filter, the handler's own check,
\* the key, s3.upload_fileobj(BytesIO(image_data),
\* 'original-images-bucket-chalice', image_key) and the answer. The handler
\* touches shared state in that one call only; the write notifies the
\* bucket's subscribers.
upload_image(header, image_data) ==
    LET content_type == header   \* request.headers.get('Content-Type', '')
    IN
    IF ~matches_content_type(header, route_content_types)
    THEN /\ last' = Answer("upload", header, EmptyBytes, NoKey, "415",
                           JsonBody("Unsupported media type", NoKey), NoHeader)
         /\ UNCHANGED <<rawStore, procStore, events, redelivered,
                        nextUuid, assigned, produced>>
    ELSE IF content_type \notin allowed_content_types
    THEN /\ last' = Answer("upload", header, EmptyBytes, NoKey, "400",
                           TextBody("Unsupported file type"), NoHeader)
         /\ UNCHANGED <<rawStore, procStore, events, redelivered,
                        nextUuid, assigned, produced>>
    ELSE LET image_extension == split(content_type, {"/"})[2]
             image_key == <<uuid4, ".">> \o image_extension
         IN  /\ nextUuid <= MaxUploads
             /\ nextUuid' = nextUuid + 1
             /\ assigned' = [assigned EXCEPT ![image_key] = @ + 1]
             /\ \E ok \in BOOLEAN :
                IF ok
                THEN /\ rawStore' = (image_key :> image_data) @@ rawStore
                     /\ events' = [events EXCEPT ![image_key] = @ + 1]
                     /\ last' = Answer("upload", header, image_data, image_key, "200",
                                       JsonBody("Image uploaded successfully", image_key),
                                       NoHeader)
                ELSE /\ last' = Answer("upload", header, image_data, image_key, "500",
                                       TextBody("Error: ClientError"), NoHeader)
                     /\ UNCHANGED <<rawStore, events>>
             /\ UNCHANGED <<procStore, redelivered, produced>>

\* S3 delivers a notification at least once: the notification of a write may
\* arrive again.
s3_redeliver(k) ==
    /\ k \in DOMAIN rawStore
    /\ redelivered < MaxRedeliveries
    /\ redelivered' = redelivered + 1
    /\ events' = [events EXCEPT ![k] = @ + 1]
    /\ UNCHANGED <<rawStore, procStore, nextUuid, assigned, produced, last>>

(* ------------------------------ resize --------------------------------- *)

\* what can fail in resize_image apart from the image itself: one of its two
\* S3 calls, or process_image for want of memory
Faults == {"none", "get", "process_image", "put_object"}

ResizeError(k) ==
    Answer("resize", NoHeader, EmptyBytes, k, "500",
           JsonBody("Error processing image", NoKey), NoHeader)

ResizeSaved(k) ==
    Answer("resize", NoHeader, EmptyBytes, k, "none",
           JsonBody("Image processed and saved", NoKey), NoHeader)

\* resize_image that removes the processed object when it fails
resize_image_cleanup(k, fault) ==
    /\ events[k] > 0
    /\ events' = [events EXCEPT ![k] = @ - 1]
    /\ IF fault = "get" \/ k \notin DOMAIN rawStore
       THEN /\ last' = ResizeError(k)
            /\ procStore' = [x \in DOMAIN procStore \ {k} |-> procStore[x]]
            /\ UNCHANGED produced
       ELSE LET image_data == rawStore[k]
                processed_image == process_image(image_data)
            IN  IF processed_image.raised \/ fault \in {"process_image", "put_object"}
                THEN /\ last' = ResizeError(k)
                     /\ procStore' = [x \in DOMAIN procStore \ {k} |-> procStore[x]]
                     /\ UNCHANGED produced
                ELSE /\ procStore' = (k :> processed_image.value) @@ procStore
                     /\ produced' = [produced EXCEPT ![k] = Append(@, processed_image.value)]
                     /\ last' = ResizeSaved(k)
    /\ UNCHANGED <<rawStore, redelivered, nextUuid, assigned>>

\* resize_image that names the processed object after its format
resize_image_jpeg_key(k, fault) ==
    /\ events[k] > 0
    /\ events' = [events EXCEPT ![k] = @ - 1]
    /\ IF fault = "get" \/ k \notin DOMAIN rawStore
       THEN /\ last' = ResizeError(k)
            /\ UNCHANGED <<procStore, produced>>
       ELSE LET image_data == rawStore[k]
                processed_image == process_image(image_data)
                out_key == <<k[1], ".", "jpeg">>
            IN  IF processed_image.raised \/ fault \in {"process_image", "put_object"}
                THEN /\ last' = ResizeError(k)
                     /\ UNCHANGED <<procStore, produced>>
                ELSE /\ procStore' = (out_key :> processed_image.value) @@ procStore
                     /\ produced' = [produced EXCEPT ![k] = Append(@, processed_image.value)]
                     /\ last' = ResizeSaved(k)
    /\ UNCHANGED <<rawStore, redelivered, nextUuid, assigned>>

\* resize_image that stores the original when the image cannot be processed
resize_image_fallback(k, fault) ==
    /\ events[k] > 0
    /\ events' = [events EXCEPT ![k] = @ - 1]
    /\ IF fault = "get" \/ k \notin DOMAIN rawStore
       THEN /\ last' = ResizeError(k)
            /\ UNCHANGED <<procStore, produced>>
       ELSE LET image_data == rawStore[k]
                processed_image == process_image(image_data)
            IN  IF processed_image.raised \/ fault \in {"process_image", "put_object"}
                THEN /\ last' = ResizeError(k)
                     /\ procStore' = (k :> image_data) @@ procStore
                     /\ UNCHANGED produced
                ELSE /\ procStore' = (k :> processed_image.value) @@ procStore
                     /\ produced' = [produced EXCEPT ![k] = Append(@, processed_image.value)]
                     /\ last' = ResizeSaved(k)
    /\ UNCHANGED <<rawStore, redelivered, nextUuid, assigned>>

\* resize_image that starts from the processed object when there is one
resize_image_reprocess(k, fault) ==
    /\ events[k] > 0
    /\ events' = [events EXCEPT ![k] = @ - 1]
    /\ IF fault = "get" \/ k \notin DOMAIN rawStore
       THEN /\ last' = ResizeError(k)
            /\ UNCHANGED <<procStore, produced>>
       ELSE LET image_data == IF k \in DOMAIN procStore THEN procStore[k] ELSE rawStore[k]
                processed_image == process_image(image_data)
            IN  IF processed_image.raised \/ fault \in {"process_image", "put_object"}
                THEN /\ last' = ResizeError(k)
                     /\ UNCHANGED <<procStore, produced>>
                ELSE /\ procStore' = (k :> processed_image.value) @@ procStore
                     /\ produced' = [produced EXCEPT ![k] = Append(@, processed_image.value)]
                     /\ last' = ResizeSaved(k)
    /\ UNCHANGED <<rawStore, redelivered, nextUuid, assigned>>

\* resize_image(event) for a notification of event.key: read the original,
\* process_image, put the result under event.key. An exception of any step
\* is caught and answered with an error, and the handler returns normally
\* (so the event is not retried); fault names the step that fails.
resize_image(k, fault) ==
    /\ events[k] > 0
    /\ events' = [events EXCEPT ![k] = @ - 1]
    /\ IF fault = "get" \/ k \notin DOMAIN rawStore
       THEN /\ last' = ResizeError(k)
            /\ UNCHANGED <<procStore, produced>>
       ELSE LET image_data == rawStore[k]
                processed_image == process_image(image_data)
            IN  IF processed_image.raised \/ fault \in {"process_image", "put_object"}
                THEN /\ last' = ResizeError(k)
                     /\ UNCHANGED <<procStore, produced>>
                ELSE /\ procStore' = (k :> processed_image.value) @@ procStore
                     /\ produced' = [produced EXCEPT ![k] = Append(@, processed_image.value)]
                     /\ last' = ResizeSaved(k)
    /\ UNCHANGED <<rawStore, redelivered, nextUuid, assigned>>

(* ----------------------------- retrieve -------------------------------- *)

\* GET /images/{image_key}: s3.get_object on the processed bucket, then the
\* Response. NoSuchKey is answered 404; any other exception, that of the
\* Response constructor included, is answered 500 with its text.
get_processed_image(image_key, ok) ==
    /\ IF ~ok
       THEN last' = Answer("get", NoHeader, EmptyBytes, image_key, "500",
                           TextBody("Error: ClientError"), NoHeader)
       ELSE IF image_key \notin DOMAIN procStore
       THEN last' = Answer("get", NoHeader, EmptyBytes, image_key, "404",
                           TextBody("Image not found"), NoHeader)
       ELSE LET image_data == procStore[image_key]
            IN  IF Response_raises({"body", "status_code", "headers", "is_base64_encoded"})
                THEN last' = Answer("get", NoHeader, EmptyBytes, image_key, "500",
                                    TextBody("Error: TypeError"), NoHeader)
                ELSE last' = Answer("get", NoHeader, EmptyBytes, image_key, "200",
                                    BytesBody(image_data), <<"image", "/", "jpeg">>)
    /\ UNCHANGED <<rawStore, procStore, events, redelivered, nextUuid, assigned, produced>>

\* the keys clients ask for: every key an upload answered with, and one that
\* no upload ever returned
RequestKeys == DOMAIN rawStore \cup {<<Uuids[MaxUploads + 1], ".", "jpeg">>}

(* --------------------------- specification ----------------------------- *)

Next ==
    \/ \E r \in Requests : upload_image(r[1], r[2])
    \/ \E k \in AllKeys : s3_redeliver(k)
    \/ \E k \in AllKeys, fault \in Faults : resize_image(k, fault)
    \/ \E image_key \in RequestKeys, ok \in BOOLEAN : get_processed_image(image_key, ok)

Spec == Init /\ [][Next]_vars

(* ------------------------------ claims --------------------------------- *)

\* the content types the documentation lists as supported
SupportedTypes ==
    { <<"image", "/", "jpeg">>, <<"image", "/", "png">>, <<"image", "/", "webp">> }

\* the bytes are an image the library decodes
ValidImage(image_data) == image_data.format \in {"JPEG", "PNG", "WEBP"}

\* key has the form <uuid>.<ext>
KeyWithExtension(key, ext) == \E i \in DOMAIN Uuids : key = <<Uuids[i], ".", ext>>

\* a JPEG of exactly the target size
IsTargetJpeg(image_data) ==
    /\ image_data.format = "JPEG"
    /\ image_data.width = 800
    /\ image_data.height = 600

\* operation a comes before operation b in the history of the pixels
Before(px, a, b) ==
    \E i, j \in DOMAIN px : i < j /\ px[i] = a /\ px[j] = b

\* C1: an upload that declares a supported content type (image/jpeg,
\* image/png, image/webp) and carries a valid image is answered 200 with a
\* key <uuid>.<ext>, ext the subtype declared, and the body is in Raw Store
\* under that key (unless the store itself fails).
C1_SupportedUploadStored ==
    [][\A r \in Requests :
          ( /\ upload_image(r[1], r[2])
            /\ r[1] \in SupportedTypes
            /\ ValidImage(r[2])
            /\ last'.status # "500" )
          => /\ last'.status = "200"
             /\ KeyWithExtension(last'.body.image_key, r[1][3])
             /\ last'.body.image_key \in DOMAIN rawStore'
             /\ rawStore'[last'.body.image_key] = r[2]]_vars

\* C2: an upload whose content type is outside the supported list, a missing
\* header included, is answered 400, and nothing is written to Raw Store and
\* no processing event is emitted.
C2_UnsupportedUploadRejected400 ==
    [][\A r \in Requests :
          (upload_image(r[1], r[2]) /\ r[1] \notin SupportedTypes)
          => /\ last'.status = "400"
             /\ rawStore' = rawStore
             /\ events' = events]_vars

\* C3: no step (upload, event, repeated event, retrieval) deletes an entry
\* of Processed Store or changes its bytes.
C3_ProcessedWriteOnce ==
    [][\A k \in DOMAIN procStore :
          k \in DOMAIN procStore' /\ procStore'[k] = procStore[k]]_vars

\* C3 witness: a key was processed, its event arrived again and was processed
\* again, and the key was then retrieved.
C3_Witness ==
    \E k \in DOMAIN procStore :
        Len(produced[k]) >= 2 /\ last.handler = "get" /\ last.key = k

\* C4: every key of Processed Store is a key of Raw Store that exactly one
\* upload assigned, and a successful Process Handler run leaves its result
\* under the key of its event.
C4_ProcessedKeyIsUploadedKey ==
    /\ \A k \in DOMAIN procStore : k \in DOMAIN rawStore /\ assigned[k] = 1
    /\ \A k \in AllKeys : produced[k] # <<>> => k \in DOMAIN procStore
    /\ (last.handler = "resize" /\ last.status = "none") => last.key \in DOMAIN procStore

\* C4 witness: a processed object lives under a key whose extension is not
\* that of its format, beside a second uploaded key.
C4_Witness ==
    \E k \in DOMAIN procStore :
        k[3] = "png" /\ procStore[k].format = "JPEG" /\ Cardinality(DOMAIN rawStore) = 2

\* the Process Handler fails for event key k under fault
ResizeFails(k, fault) ==
    \/ fault # "none"
    \/ k \notin DOMAIN rawStore
    \/ process_image(rawStore[k]).raised

\* C5: a Process Handler run in which a step fails (the read, the decode or
\* encode, the write) answers with the error result, leaves Processed Store
\* as it was and queues no new event; and a key enters Processed Store only
\* in a step that consumes an event for it.
C5_FailureLeavesProcessedStore ==
    [][/\ \A k \in AllKeys, fault \in Faults :
             (resize_image(k, fault) /\ ResizeFails(k, fault))
             => /\ last' = ResizeError(k)
                /\ procStore' = procStore
                /\ \A x \in AllKeys : events'[x] <= events[x]
       /\ \A k \in AllKeys :
             (k \notin DOMAIN procStore /\ k \in DOMAIN procStore')
             => events[k] > 0 /\ events'[k] = events[k] - 1]_vars

\* C5 witness: the run for a stored key failed, the key is absent from
\* Processed Store and no event for it is pending.
C5_Witness ==
    /\ last.handler = "resize"
    /\ last.status = "500"
    /\ last.key \in DOMAIN rawStore
    /\ last.key \notin DOMAIN procStore
    /\ events[last.key] = 0

\* C6: a retrieval (the store answering) of a key without an entry in
\* Processed Store is answered 404 "Image not found", that of a key with an
\* entry 200 with the stored bytes and Content-Type image/jpeg; neither
\* store changes.
C6_RetrieveAnswers ==
    [][\A k \in RequestKeys :
          get_processed_image(k, TRUE)
          => /\ IF k \in DOMAIN procStore
                THEN /\ last'.status = "200"
                     /\ last'.body.data = procStore[k]
                     /\ last'.headers = <<"image", "/", "jpeg">>
                ELSE /\ last'.status = "404"
                     /\ last'.body.text = "Image not found"
             /\ rawStore' = rawStore
             /\ procStore' = procStore]_vars

\* C7: a retrieval of an uploaded key before the Process Handler has
\* succeeded for it is answered not-found (404), one after it has succeeded
\* is answered 200.
C7_RetrieveBeforeAndAfter ==
    [][\A k \in DOMAIN rawStore :
          get_processed_image(k, TRUE)
          => /\ (produced[k] = <<>>) => last'.status = "404"
             /\ (produced[k] # <<>>) => last'.status = "200"]_vars

\* C8: no step overwrites or deletes an entry of Raw Store, and no key is
\* assigned by more than one upload.
C8_UploadsNeverCollide ==
    [][/\ \A k \in DOMAIN rawStore :
             k \in DOMAIN rawStore' /\ rawStore'[k] = rawStore[k]
       /\ \A k \in AllKeys : assigned'[k] <= 1]_vars

\* C8 witness: two uploads of the same content type and the same bytes are
\* stored under two keys.
C8_Witness ==
    \E k1, k2 \in DOMAIN rawStore :
        k1 # k2 /\ k1[3] = k2[3] /\ rawStore[k1] = rawStore[k2]

\* C9: all outputs the Process Handler has written for one key are the same
\* bytes, and they are the bytes Processed Store holds for it.
C9_ProcessingIdempotent ==
    \A k \in AllKeys :
        \A i \in DOMAIN produced[k] :
            produced[k][i] = produced[k][1] /\ procStore[k] = produced[k][i]

\* C9 witness: the Process Handler has succeeded twice for one key.
C9_Witness == \E k \in AllKeys : Len(produced[k]) >= 2

\* C10: what a retrieval (the store answering) returns for a processed key is
\* a JPEG of exactly 800x600, whatever the size and format of the upload,
\* and a WebP upload was converted before it was resized.
C10_RoundTripTargetJpeg ==
    [][\A k \in DOMAIN procStore :
          get_processed_image(k, TRUE)
          => /\ last'.body.kind = "bytes"
             /\ IsTargetJpeg(last'.body.data)
             /\ rawStore[k].format = "WEBP"
                    => Before(last'.body.data.px, "convert", "resize")]_vars

====
